---- MODULE Spec2Model ----
(***************************************************************************)
(* State-machine model of the HAN trainer flow                             *)
(* (openhgnn/trainerflow/han_trainer.py): HAN.__init__, HAN.train and the  *)
(* full-batch / mini-batch train, test and prediction steps.               *)
(*                                                                         *)
(* The model, the data loaders, the loss function, the evaluator and the   *)
(* early stopper are collaborators of the flow.  They are represented by   *)
(* small deterministic tables (a loss per node and parameter state, an     *)
(* output vector per node and parameter state) and by nondeterminism       *)
(* (the effect of optimizer.step(), the order a shuffling loader yields).  *)
(***************************************************************************)
EXTENDS Integers, Sequences, FiniteSets, TLC

VARIABLES
    cfg,          \* args: the configuration the flow was constructed with
    pc,           \* position of the control flow inside train() and its steps
    epoch,        \* loop variable of `for epoch in epoch_iter` (-1: unbound)
    params,       \* the model's parameters: [ver: updates applied, q: state]
    training,     \* model.training (TRUE after model.train(), FALSE after eval())
    stopper,      \* the EarlyStopping object
    train_loss,   \* local of train(): value returned by the train step
    metric_dict,  \* local of train(): split -> score
    losses,       \* local of train(): split -> loss
    result,       \* value returned by train()
    ret_to,       \* call site a running test step returns to
    modes,        \* test step: the modes still to be traversed
    mode,         \* test step: loop variable of `for mode in modes`
    loader,       \* batches the loader being traversed has still to yield
    i,            \* loop variable of enumerate(loader_tqdm) (-1: unbound)
    loss_all,     \* accumulator of the mini-batch steps (a rational)
    loss,         \* loss of the last batch computed (Null: unbound)
    y_trues,      \* mini test step: labels accumulated
    y_predicts,   \* mini test / prediction step: outputs accumulated
    indices,      \* mini prediction step: seed identifiers accumulated
    m_dict,       \* test step: metric_dict under construction
    l_dict,       \* test step: loss_dict under construction
    batch_losses, \* history: per-batch losses of the traversal in progress
    call_params,  \* history: the parameters when the running step was called
    fwd,          \* history: kinds of forward pass executed by this run
    fwd_modes,    \* history: <<step, model.training>> of the forward passes executed
    best_obs,     \* history: the lowest validation loss observed, and its params
    n_obs,        \* history: number of validation losses handed to the stopper
    results_file, \* the file dataset.save_results writes (<<>>: not written)
    landscape,    \* environment: what optimizer.step() can do to the parameters
    ex_match,     \* history: how many observations matched Example so far (-1: not all)
    calls,        \* history: what the test steps called directly returned
    task,         \* environment: what self.task and its dataset provide
    out_dim,      \* args.out_dim
    given_out_dim, \* history: args.out_dim as the flow was given it
    model_out_dim \* the out_dim the model was built with (0: not built)

vars == <<cfg, pc, epoch, params, training, stopper, train_loss, metric_dict,
          losses, result, ret_to, modes, mode, loader, i, loss_all, loss,
          y_trues, y_predicts, indices, m_dict, l_dict, batch_losses,
          call_params, fwd, fwd_modes, best_obs, n_obs, results_file, landscape,
          ex_match, calls, task, out_dim, given_out_dim, model_out_dim>>

-----------------------------------------------------------------------------
(* Bounds of the model.                                                    *)

MaxEpoch == 2
MaxPatience == 2
MaxInterval == 2
MaxBatch == 3
MaxClasses == 3
NumQ == 2
MaxCalls == 2

-----------------------------------------------------------------------------
(* Values.                                                                 *)

Null == -1000
INF == 1000

\* A rational number num/den in lowest terms (Python floats of the program).
RECURSIVE Gcd(_, _)
Gcd(a, b) == IF b = 0 THEN a ELSE Gcd(b, a % b)

Abs(x) == IF x < 0 THEN -x ELSE x

Rat(n, d) ==
    LET g == Gcd(Abs(n), d) IN
    IF n = 0 THEN [num |-> 0, den |-> 1] ELSE [num |-> n \div g, den |-> d \div g]

RatAdd(r, k) == Rat(r.num + k * r.den, r.den)

RatDiv(r, k) == Rat(r.num, r.den * k)

RECURSIVE SumSeq(_)
SumSeq(s) == IF s = <<>> THEN 0 ELSE Head(s) + SumSeq(Tail(s))

RECURSIVE Concat(_)
Concat(ss) == IF ss = <<>> THEN <<>> ELSE Head(ss) \o Concat(Tail(ss))

EmptyDict == [k \in {} |-> 0]

Put(d, k, v) == [x \in (DOMAIN d) \cup {k} |-> IF x = k THEN v ELSE d[x]]

Range(s) == {s[k] : k \in DOMAIN s}

-----------------------------------------------------------------------------
(* The dataset: node identifiers of the category type and the splits.      *)

num_nodes == 9

train_idx == <<0, 1, 2>>
valid_idx == <<3, 4>>
test_idx == <<5, 6>>
pred_idx == <<7, 8>>

Labels(n) == n % 2

\* The validation losses of the worked example, times ten.
Example == <<50, 40, 42, 43, 41>>

\* Loss of a split as a whole, per parameter state q = 0, 1, ...
Base == Example \o <<45, 39>>

\* Deviation of a node's loss from the loss of its split.
Dev == <<-6, 0, 6, -1, 1, -2, 2, 0, 0>>

NodeLoss(q, n) == Base[q + 1] + Dev[n + 1]

\* self.loss_fn(logits, lbl): the mean over the seeds of the per-node losses.
LossFn(q, seeds) ==
    SumSeq([k \in 1..Len(seeds) |-> NodeLoss(q, seeds[k])]) \div Len(seeds)

\* The model's output vector for node n under parameter state q.
Out(q, n) == 10 * q + n

\* The seed node an output vector was computed for.
NodeOf(o) == o % 10

\* logits.argmax(dim=1)
Argmax(o) == ((o \div 10) * (o % 10)) % 2

\* The evaluator: the score of predictions against labels, position by position.
F1(trues, preds) ==
    <<Cardinality({k \in 1..Len(trues) : trues[k] = preds[k]}), Len(trues)>>

\* self.task.evaluate(logits, mode=key) of the full-batch test step.
Mask(m) ==
    CASE m = "train" -> train_idx
      [] m = "valid" -> valid_idx
      [] m = "test" -> test_idx

Evaluate(q, m) ==
    F1([k \in 1..Len(Mask(m)) |-> Labels(Mask(m)[k])],
       [k \in 1..Len(Mask(m)) |-> Argmax(Out(q, Mask(m)[k]))])

-----------------------------------------------------------------------------
(* The data loaders (dgl.dataloading.DataLoader, shuffle=True).            *)

Perms(s) ==
    {p \in [1..Len(s) -> Range(s)] : \A a, b \in 1..Len(s) : a # b => p[a] # p[b]}

NumBatches(n, bs) == (n + bs - 1) \div bs

Chunk(p, bs) ==
    [b \in 1..NumBatches(Len(p), bs) |->
        SubSeq(p, (b - 1) * bs + 1,
               IF b * bs < Len(p) THEN b * bs ELSE Len(p))]

\* Every pass yields each node of the split in exactly one batch, in an order
\* the loader chooses.
Traversals(idx, bs) == {Chunk(p, bs) : p \in Perms(idx)}

\* An iterator over a loader: the batches still to come, the number yielded.
NoLoader == [rest |-> <<>>, n |-> 0]

Iter(batches) == [rest |-> batches, n |-> 0]

Advance(it) == [rest |-> Tail(it.rest), n |-> it.n + 1]

-----------------------------------------------------------------------------
(* The early stopper (openhgnn/utils EarlyStopping).                        *)

NoCkpt == [ver |-> -1, q |-> -1]

\* EarlyStopping(patience, checkpoint path)
NewStopper(patience) ==
    [patience |-> patience, best_loss |-> INF, counter |-> 0,
     early_stop |-> FALSE, ckpt |-> NoCkpt]

\* stopper.loss_step(val_loss, model): the stopper after the observation;
\* its early_stop field is the value returned.
LossStep(st, v, p) ==
    IF v < st.best_loss
    THEN [st EXCEPT !.best_loss = v, !.counter = 0, !.ckpt = p]
    ELSE [st EXCEPT !.counter = st.counter + 1,
                    !.early_stop = (st.counter + 1 >= st.patience)]

\* stopper.load_model(model): the parameters of the model afterwards.
LoadModel(st, p) == st.ckpt

-----------------------------------------------------------------------------
(* Construction: HAN.__init__.                                             *)

Datasets == {"HGBn-ACM", "acm4GTN"}

\* self.args.dataset[:4]
Prefix4(d) == IF d = "HGBn-ACM" THEN "HGBn" ELSE "acm4"

Configs ==
    [mini_batch_flag : BOOLEAN, test_flag : BOOLEAN, prediction_flag : BOOLEAN,
     dataset : Datasets, patience : 1..MaxPatience,
     evaluate_interval : 1..MaxInterval, max_epoch : 1..MaxEpoch,
     batch_size : 1..MaxBatch]

\* hasattr(self, 'val_loader'): the loaders are created in mini-batch mode only.
HasValLoader == cfg.mini_batch_flag

UseMini == cfg.mini_batch_flag /\ HasValLoader

\* The run of the worked example: patience 3, an evaluation every epoch, and one
\* epoch more than the example has observations.
ExampleConfigs ==
    [mini_batch_flag : BOOLEAN, test_flag : BOOLEAN, prediction_flag : BOOLEAN,
     dataset : Datasets, patience : {Len(Example) - 2},
     evaluate_interval : {1}, max_epoch : {Len(Example) + 1},
     batch_size : 1..MaxBatch]

\* What the task provides: whether its dataset has an out_dim attribute, its
\* number of classes, and whether it has a test and a prediction index set.
Tasks ==
    [has_out_dim : BOOLEAN, num_classes : 2..MaxClasses,
     has_test_idx : BOOLEAN, has_pred_idx : BOOLEAN]

\* The task of the runs below: the labels have two classes, every split exists.
CompleteTask ==
    [has_out_dim |-> TRUE, num_classes |-> Cardinality({Labels(n) : n \in 0..(num_nodes - 1)}),
     has_test_idx |-> TRUE, has_pred_idx |-> TRUE]

\* The flow after a construction that found nothing to correct.
Constructed ==
    /\ task = CompleteTask
    /\ out_dim = task.num_classes
    /\ given_out_dim = task.num_classes
    /\ model_out_dim = task.num_classes

NoRat == [num |-> Null, den |-> 1]

NoResult == [kind |-> "running"]

NoObs == [loss |-> INF, params |-> NoCkpt]

InitRun ==
    /\ pc = "for"
    /\ epoch = -1
    /\ params = [ver |-> 0, q |-> 0]
    /\ training = TRUE
    /\ stopper = NewStopper(cfg.patience)
    /\ train_loss = NoRat
    /\ metric_dict = EmptyDict
    /\ losses = EmptyDict
    /\ result = NoResult
    /\ ret_to = "none"
    /\ modes = <<>>
    /\ mode = "none"
    /\ loader = NoLoader
    /\ i = -1
    /\ loss_all = NoRat
    /\ loss = Null
    /\ y_trues = <<>>
    /\ y_predicts = <<>>
    /\ indices = <<>>
    /\ m_dict = EmptyDict
    /\ l_dict = EmptyDict
    /\ batch_losses = <<>>
    /\ call_params = NoCkpt
    /\ fwd = {}
    /\ fwd_modes = {}
    /\ best_obs = NoObs
    /\ n_obs = 0
    /\ results_file = <<>>
    /\ ex_match = 0
    /\ calls = <<>>
    /\ Constructed

\* Any configuration within the bounds, with an optimizer whose steps can lead
\* to any parameter state; or the configuration of the worked example, with
\* the optimizer leading through the parameter states of the example.
Init ==
    /\ \/ cfg \in Configs /\ landscape = "any"
       \/ cfg \in ExampleConfigs /\ landscape = "example"
    /\ InitRun

stepLocals == <<modes, mode, loader, i, loss_all, loss, y_trues, y_predicts,
                indices, m_dict, l_dict, batch_losses>>

trainLocals == <<train_loss, metric_dict, losses>>

history == <<fwd, fwd_modes, best_obs, n_obs, ex_match, calls>>

env == <<cfg, landscape, task, given_out_dim, out_dim, model_out_dim>>

\* The locals of a step function are gone when it returns.
ClearStepLocals ==
    /\ modes' = <<>>
    /\ mode' = "none"
    /\ loader' = NoLoader
    /\ i' = -1
    /\ loss_all' = NoRat
    /\ loss' = Null
    /\ y_trues' = <<>>
    /\ y_predicts' = <<>>
    /\ indices' = <<>>
    /\ m_dict' = EmptyDict
    /\ l_dict' = EmptyDict
    /\ batch_losses' = <<>>

-----------------------------------------------------------------------------
(* train(): the epoch loop.                                                *)

\* ForEpoch over range(max_epoch - 1).
ForEpoch_OneLess ==
    /\ pc = "for"
    /\ IF epoch + 2 < cfg.max_epoch
       THEN /\ epoch' = epoch + 1
            /\ pc' = "train_step"
       ELSE /\ epoch' = epoch
            /\ pc' = "load"
    /\ UNCHANGED <<env, params, training, stopper, trainLocals, result, ret_to,
                   stepLocals, call_params, history, results_file>>

\* ForEpoch over range(max_epoch + 1).
ForEpoch_OneMore ==
    /\ pc = "for"
    /\ IF epoch < cfg.max_epoch
       THEN /\ epoch' = epoch + 1
            /\ pc' = "train_step"
       ELSE /\ epoch' = epoch
            /\ pc' = "load"
    /\ UNCHANGED <<env, params, training, stopper, trainLocals, result, ret_to,
                   stepLocals, call_params, history, results_file>>

\* for epoch in epoch_iter: the next epoch, or the end of the loop.
ForEpoch ==
    /\ pc = "for"
    /\ IF epoch + 1 < cfg.max_epoch
       THEN /\ epoch' = epoch + 1
            /\ pc' = "train_step"
       ELSE /\ epoch' = epoch
            /\ pc' = "load"
    /\ UNCHANGED <<env, params, training, stopper, trainLocals, result, ret_to,
                   stepLocals, call_params, history, results_file>>

\* optimizer.step(): the parameters after one more update.
OptimizerStep(p, q) == [ver |-> p.ver + 1, q |-> q]

\* The parameter states an update can lead to.
Reachable ==
    IF landscape = "example" THEN {n_obs} ELSE 0..(NumQ - 1)

\* The loss _full_train_step returns under parameter state q.
FullTrainLoss(q) == Rat(LossFn(q, train_idx), 1)

\* _full_train_step
FullTrainStep ==
    /\ pc = "train_step"
    /\ ~cfg.mini_batch_flag
    /\ training' = TRUE
    /\ fwd' = fwd \cup {"whole"}
    /\ fwd_modes' = fwd_modes \cup {<<"train", training'>>}
    /\ \E q \in Reachable : params' = OptimizerStep(params, q)
    /\ train_loss' = FullTrainLoss(params.q)
    /\ call_params' = NoCkpt
    /\ pc' = "eval_check"
    /\ UNCHANGED <<env, epoch, stopper, metric_dict, losses, result, ret_to,
                   stepLocals, best_obs, n_obs, ex_match, calls, results_file>>

\* if epoch % self.evaluate_interval == 0: ... else: next iteration
EvalSkip ==
    /\ pc = "eval_check"
    /\ epoch % cfg.evaluate_interval # 0
    /\ pc' = "for"
    /\ UNCHANGED <<env, epoch, params, training, stopper, trainLocals, result,
                   ret_to, stepLocals, call_params, history, results_file>>

EpochModes ==
    IF cfg.test_flag THEN <<"train", "valid", "test">> ELSE <<"train", "valid">>

\* The call sites that keep the loss mapping the test step returns (the final
\* calls of train() bind it to a name that is not read).
KeepsLosses(site) == site \in {"epoch", "direct"}

\* Where a test step called from `site` returns to.
ReturnPc(site) ==
    CASE site = "epoch" -> "stopper"
      [] site = "hgbn" -> "hgbn_export"
      [] site = "final" -> "final_return"
      [] site = "direct" -> "direct_return"

\* The dictionaries _full_test_step(modes=ms) returns under parameter state q.
FullMetrics(q, ms) == [m \in Range(ms) |-> Evaluate(q, m)]

FullLosses(q, ms) == [m \in Range(ms) |-> LossFn(q, Mask(m))]

\* _full_test_step(modes=ms), called from `site`: one forward pass over the
\* whole graph, shared by the splits.
FullTestStep(ms, site) ==
    /\ training' = FALSE
    /\ fwd' = fwd \cup {"whole"}
    /\ fwd_modes' = fwd_modes \cup {<<"test", training'>>}
    /\ metric_dict' = FullMetrics(params.q, ms)
    /\ losses' = IF KeepsLosses(site) THEN FullLosses(params.q, ms) ELSE losses
    /\ call_params' = NoCkpt
    /\ ret_to' = "none"
    /\ pc' = ReturnPc(site)
    /\ UNCHANGED <<env, epoch, params, stopper, train_loss, result, stepLocals,
                   best_obs, n_obs, ex_match, calls, results_file>>

\* _mini_test_step(modes=ms), called from `site`: up to the loop over modes.
MiniTestCall(ms, site) ==
    /\ training' = FALSE
    /\ m_dict' = EmptyDict
    /\ l_dict' = EmptyDict
    /\ loss_all' = Rat(0, 1)
    /\ modes' = ms
    /\ call_params' = params
    /\ ret_to' = site
    /\ pc' = "mini_test_for"
    /\ UNCHANGED <<env, epoch, params, stopper, trainLocals, result, mode,
                   loader, i, loss, y_trues, y_predicts, indices, batch_losses,
                   history, results_file>>

TestStep(ms, site) ==
    IF UseMini THEN MiniTestCall(ms, site) ELSE FullTestStep(ms, site)

\* The evaluation of an evaluation epoch.
EvalEpoch ==
    /\ pc = "eval_check"
    /\ epoch % cfg.evaluate_interval = 0
    /\ TestStep(EpochModes, "epoch")

\* ConsultStopper without the break: the loop goes on after early_stop.
ConsultStopper_NoBreak ==
    /\ pc = "stopper"
    /\ stopper' = LossStep(stopper, losses["valid"], params)
    /\ pc' = "for"
    /\ n_obs' = n_obs + 1
    /\ ex_match' = IF /\ ex_match = n_obs
                      /\ n_obs < Len(Example)
                      /\ losses["valid"] = Example[n_obs + 1]
                   THEN n_obs + 1
                   ELSE -1
    /\ best_obs' = IF losses["valid"] < best_obs.loss
                   THEN [loss |-> losses["valid"], params |-> params]
                   ELSE best_obs
    /\ train_loss' = NoRat
    /\ metric_dict' = EmptyDict
    /\ losses' = EmptyDict
    /\ UNCHANGED <<env, epoch, params, training, result, ret_to, stepLocals,
                   call_params, fwd, fwd_modes, calls, results_file>>

\* val_loss = losses['valid']; early_stop = stopper.loss_step(val_loss, model);
\* if early_stop: break
\* (train_loss, metric_dict and losses are logged here and not read again
\* before they are assigned again: they are dropped.)
ConsultStopper ==
    /\ pc = "stopper"
    /\ stopper' = LossStep(stopper, losses["valid"], params)
    /\ pc' = IF stopper'.early_stop THEN "load" ELSE "for"
    /\ n_obs' = n_obs + 1
    /\ ex_match' = IF /\ ex_match = n_obs
                      /\ n_obs < Len(Example)
                      /\ losses["valid"] = Example[n_obs + 1]
                   THEN n_obs + 1
                   ELSE -1
    /\ best_obs' = IF losses["valid"] < best_obs.loss
                   THEN [loss |-> losses["valid"], params |-> params]
                   ELSE best_obs
    /\ train_loss' = NoRat
    /\ metric_dict' = EmptyDict
    /\ losses' = EmptyDict
    /\ UNCHANGED <<env, epoch, params, training, result, ret_to, stepLocals,
                   call_params, fwd, fwd_modes, calls, results_file>>

\* RestoreBest without the load: the last-trained parameters stay.
RestoreBest_Skipped ==
    /\ pc = "load"
    /\ params' = params
    /\ pc' = IF cfg.prediction_flag THEN "predict" ELSE "final"
    /\ UNCHANGED <<env, epoch, training, stopper, trainLocals, result, ret_to,
                   stepLocals, call_params, history, results_file>>

\* RestoreBest with the test_flag block of train() ahead of the
\* prediction_flag block.
RestoreBest_TestFirst ==
    /\ pc = "load"
    /\ params' = LoadModel(stopper, params)
    /\ pc' = IF cfg.test_flag \/ ~cfg.prediction_flag THEN "final" ELSE "predict"
    /\ UNCHANGED <<env, epoch, training, stopper, trainLocals, result, ret_to,
                   stepLocals, call_params, history, results_file>>

\* stopper.load_model(self.model)
RestoreBest ==
    /\ pc = "load"
    /\ params' = LoadModel(stopper, params)
    /\ pc' = IF cfg.prediction_flag THEN "predict" ELSE "final"
    /\ UNCHANGED <<env, epoch, training, stopper, trainLocals, result, ret_to,
                   stepLocals, call_params, history, results_file>>

-----------------------------------------------------------------------------
(* train(): after the loop.                                                *)

\* train() returns v: its locals are gone.
Return(v) ==
    /\ result' = v
    /\ pc' = "done"
    /\ train_loss' = NoRat
    /\ metric_dict' = EmptyDict
    /\ losses' = EmptyDict
    /\ call_params' = NoCkpt
    /\ ret_to' = "none"
    /\ ClearStepLocals

\* _full_prediction_step, and indices = torch.arange(num_nodes(category))
FullPrediction ==
    /\ pc = "predict"
    /\ ~UseMini
    /\ training' = FALSE
    /\ fwd' = fwd \cup {"whole"}
    /\ fwd_modes' = fwd_modes \cup {<<"predict", training'>>}
    /\ Return([kind |-> "prediction",
               indices |-> [k \in 1..num_nodes |-> k - 1],
               y_predicts |-> [k \in 1..num_nodes |-> Out(params.q, k - 1)]])
    /\ UNCHANGED <<env, epoch, params, stopper, best_obs, n_obs, ex_match, calls, results_file>>

\* if self.args.test_flag: ... (otherwise train() falls off its end)
FinalNoTest ==
    /\ pc = "final"
    /\ ~cfg.test_flag
    /\ Return([kind |-> "None"])
    /\ UNCHANGED <<env, epoch, params, training, stopper, history, results_file>>

\* if self.args.dataset[:4] == 'HGBn': the test step on ['valid']
FinalHGBnEval ==
    /\ pc = "final"
    /\ cfg.test_flag
    /\ Prefix4(cfg.dataset) = "HGBn"
    /\ TestStep(<<"valid">>, "hgbn")

\* model.eval(); logits = self.model(self.hg, h_dict)[category];
\* save_results(logits); return dict(metric=metric_dict, epoch=epoch)
HGBnExport ==
    /\ pc = "hgbn_export"
    /\ training' = FALSE
    /\ fwd' = fwd \cup {"whole"}
    /\ fwd_modes' = fwd_modes \cup {<<"export", training'>>}
    /\ results_file' = [k \in 1..num_nodes |-> Out(params.q, k - 1)]
    /\ Return([kind |-> "summary", metric |-> metric_dict, epoch |-> epoch])
    /\ UNCHANGED <<env, epoch, params, stopper, best_obs, n_obs, ex_match, calls>>

\* FinalTestEval evaluating the valid split only.
FinalTestEval_ValidOnly ==
    /\ pc = "final"
    /\ cfg.test_flag
    /\ Prefix4(cfg.dataset) # "HGBn"
    /\ TestStep(<<"valid">>, "final")

\* the test step on ['valid', 'test']
FinalTestEval ==
    /\ pc = "final"
    /\ cfg.test_flag
    /\ Prefix4(cfg.dataset) # "HGBn"
    /\ TestStep(<<"valid", "test">>, "final")

\* FinalReturn reporting the epoch of the last improvement of the stopper.
FinalReturn_BestEpoch ==
    /\ pc = "final_return"
    /\ Return([kind |-> "summary", metric |-> metric_dict,
               epoch |-> epoch - stopper.counter * cfg.evaluate_interval])
    /\ UNCHANGED <<env, epoch, params, training, stopper, history, results_file>>

\* return dict(metric=metric_dict, epoch=epoch)
FinalReturn ==
    /\ pc = "final_return"
    /\ Return([kind |-> "summary", metric |-> metric_dict, epoch |-> epoch])
    /\ UNCHANGED <<env, epoch, params, training, stopper, history, results_file>>

-----------------------------------------------------------------------------
(* The mini-batch steps.                                                   *)

\* MiniTrainCall without model.train(): the model stays in the mode the last
\* step left it in.
MiniTrainCall_NoTrainMode ==
    /\ pc = "train_step"
    /\ cfg.mini_batch_flag
    /\ loss_all' = Rat(0, 1)
    /\ \E t \in Traversals(train_idx, cfg.batch_size) : loader' = Iter(t)
    /\ batch_losses' = <<>>
    /\ call_params' = params
    /\ pc' = "mini_train_batch"
    /\ UNCHANGED <<env, epoch, params, training, stopper, trainLocals, result,
                   ret_to, modes, mode, i, loss, y_trues, y_predicts, indices,
                   m_dict, l_dict, history, results_file>>

\* _mini_train_step: model.train(); loss_all = 0.0; the train loader
MiniTrainCall ==
    /\ pc = "train_step"
    /\ cfg.mini_batch_flag
    /\ training' = TRUE
    /\ loss_all' = Rat(0, 1)
    /\ \E t \in Traversals(train_idx, cfg.batch_size) : loader' = Iter(t)
    /\ batch_losses' = <<>>
    /\ call_params' = params
    /\ pc' = "mini_train_batch"
    /\ UNCHANGED <<env, epoch, params, stopper, trainLocals, result, ret_to,
                   modes, mode, i, loss, y_trues, y_predicts, indices, m_dict,
                   l_dict, history, results_file>>

\* MiniTrainBatch without optimizer.step().
MiniTrainBatch_NoStep ==
    /\ pc = "mini_train_batch"
    /\ loader.rest # <<>>
    /\ LET seeds == Head(loader.rest)
           l == LossFn(params.q, seeds)
       IN  /\ i' = loader.n
           /\ loss' = l
           /\ loss_all' = RatAdd(loss_all, l)
           /\ batch_losses' = Append(batch_losses, l)
    /\ loader' = Advance(loader)
    /\ fwd' = fwd \cup {"sampled"}
    /\ fwd_modes' = fwd_modes \cup {<<"train", training>>}
    /\ UNCHANGED <<env, pc, epoch, params, training, stopper, trainLocals,
                   result, ret_to, modes, mode, y_trues, y_predicts, indices,
                   m_dict, l_dict, call_params, best_obs, n_obs, ex_match,
                   calls, results_file>>

\* One iteration of the batch loop: forward, loss, loss_all += loss.item(),
\* zero_grad, backward, optimizer.step().
MiniTrainBatch ==
    /\ pc = "mini_train_batch"
    /\ loader.rest # <<>>
    /\ LET seeds == Head(loader.rest)
           l == LossFn(params.q, seeds)
       IN  /\ i' = loader.n
           /\ loss' = l
           /\ loss_all' = RatAdd(loss_all, l)
           /\ batch_losses' = Append(batch_losses, l)
    /\ loader' = Advance(loader)
    /\ fwd' = fwd \cup {"sampled"}
    /\ fwd_modes' = fwd_modes \cup {<<"train", training>>}
    /\ \E q \in Reachable : params' = OptimizerStep(params, q)
    /\ UNCHANGED <<env, pc, epoch, training, stopper, trainLocals, result,
                   ret_to, modes, mode, y_trues, y_predicts, indices, m_dict,
                   l_dict, call_params, best_obs, n_obs, ex_match, calls, results_file>>

\* MiniTrainResult as the loss of the last batch.
MiniTrainResult_LastBatch == Rat(loss, 1)

\* The value _mini_train_step returns.
MiniTrainResult == RatDiv(loss_all, i + 1)

\* return loss_all / (i + 1)
MiniTrainReturn ==
    /\ pc = "mini_train_batch"
    /\ loader.rest = <<>>
    /\ train_loss' = MiniTrainResult
    /\ pc' = "eval_check"
    /\ call_params' = NoCkpt
    /\ ClearStepLocals
    /\ UNCHANGED <<env, epoch, params, training, stopper, metric_dict, losses,
                   result, ret_to, history, results_file>>

\* MiniTestFor with y_trues and y_predicts created once, before the loop over
\* the modes.
MiniTestFor_KeepAccumulators ==
    /\ pc = "mini_test_for"
    /\ modes # <<>>
    /\ mode' = Head(modes)
    /\ modes' = Tail(modes)
    /\ \E t \in Traversals(Mask(Head(modes)), cfg.batch_size) : loader' = Iter(t)
    /\ batch_losses' = <<>>
    /\ pc' = "mini_test_batch"
    /\ UNCHANGED <<env, epoch, params, training, stopper, trainLocals, result,
                   ret_to, i, loss_all, loss, y_trues, y_predicts, indices,
                   m_dict, l_dict, call_params, history, results_file>>

\* for mode in modes: the loader of the mode; y_trues = []; y_predicts = []
MiniTestFor ==
    /\ pc = "mini_test_for"
    /\ modes # <<>>
    /\ mode' = Head(modes)
    /\ modes' = Tail(modes)
    /\ \E t \in Traversals(Mask(Head(modes)), cfg.batch_size) : loader' = Iter(t)
    /\ y_trues' = <<>>
    /\ y_predicts' = <<>>
    /\ batch_losses' = <<>>
    /\ pc' = "mini_test_batch"
    /\ UNCHANGED <<env, epoch, params, training, stopper, trainLocals, result,
                   ret_to, i, loss_all, loss, indices, m_dict, l_dict,
                   call_params, history, results_file>>

\* One iteration of the batch loop of the test step.
MiniTestBatch ==
    /\ pc = "mini_test_batch"
    /\ loader.rest # <<>>
    /\ LET seeds == Head(loader.rest)
           l == LossFn(params.q, seeds)
       IN  /\ i' = loader.n
           /\ loss' = l
           /\ loss_all' = RatAdd(loss_all, l)
           /\ batch_losses' = Append(batch_losses, l)
           /\ y_trues' = Append(y_trues, [k \in 1..Len(seeds) |-> Labels(seeds[k])])
           /\ y_predicts' =
                Append(y_predicts, [k \in 1..Len(seeds) |-> Out(params.q, seeds[k])])
    /\ loader' = Advance(loader)
    /\ fwd' = fwd \cup {"sampled"}
    /\ fwd_modes' = fwd_modes \cup {<<"test", training>>}
    /\ UNCHANGED <<env, pc, epoch, params, training, stopper, trainLocals,
                   result, ret_to, modes, mode, indices, m_dict, l_dict,
                   call_params, best_obs, n_obs, ex_match, calls, results_file>>

\* MiniTestLoss as the accumulator loss_all (rounded down).
MiniTestLoss_Accumulated == loss_all.num \div loss_all.den

\* MiniTestLoss as loss_all / (i + 1) (rounded down), loss_all being set to
\* zero once, before the loop over the modes.
MiniTestLoss_Mean == loss_all.num \div (loss_all.den * (i + 1))

\* The loss the test step stores for the mode just traversed.
MiniTestLoss == loss

\* After the batch loop: loss_all /= (i + 1); the evaluator on the
\* concatenated labels and predictions; loss_dict[mode] = loss
MiniTestModeEnd ==
    /\ pc = "mini_test_batch"
    /\ loader.rest = <<>>
    /\ loss_all' = RatDiv(loss_all, i + 1)
    /\ LET trues == Concat(y_trues)
           outs == Concat(y_predicts)
       IN  /\ y_trues' = trues
           /\ y_predicts' = outs
           /\ m_dict' = Put(m_dict, mode,
                            F1(trues, [k \in 1..Len(outs) |-> Argmax(outs[k])]))
    /\ l_dict' = Put(l_dict, mode, MiniTestLoss)
    /\ pc' = "mini_test_for"
    /\ UNCHANGED <<env, epoch, params, training, stopper, trainLocals, result,
                   ret_to, modes, mode, loader, i, loss, indices, batch_losses,
                   call_params, history, results_file>>

\* return metric_dict, loss_dict
MiniTestReturn ==
    /\ pc = "mini_test_for"
    /\ modes = <<>>
    /\ metric_dict' = m_dict
    /\ losses' = IF KeepsLosses(ret_to) THEN l_dict ELSE losses
    /\ pc' = ReturnPc(ret_to)
    /\ ret_to' = "none"
    /\ call_params' = NoCkpt
    /\ ClearStepLocals
    /\ UNCHANGED <<env, epoch, params, training, stopper, train_loss, result,
                   history, results_file>>

\* _mini_prediction_step: model.eval(); the prediction loader
MiniPredCall ==
    /\ pc = "predict"
    /\ UseMini
    /\ training' = FALSE
    /\ \E t \in Traversals(pred_idx, cfg.batch_size) : loader' = Iter(t)
    /\ indices' = <<>>
    /\ y_predicts' = <<>>
    /\ call_params' = params
    /\ pc' = "mini_pred_batch"
    /\ UNCHANGED <<env, epoch, params, stopper, trainLocals, result, ret_to,
                   modes, mode, i, loss_all, loss, y_trues, m_dict, l_dict,
                   batch_losses, history, results_file>>

\* MiniPredBatch keeping the outputs of the last batch only.
MiniPredBatch_Overwrite ==
    /\ pc = "mini_pred_batch"
    /\ loader.rest # <<>>
    /\ LET seeds == Head(loader.rest)
       IN  /\ i' = loader.n
           /\ indices' = Append(indices, seeds)
           /\ y_predicts' =
                <<[k \in 1..Len(seeds) |-> Out(params.q, seeds[k])]>>
    /\ loader' = Advance(loader)
    /\ fwd' = fwd \cup {"sampled"}
    /\ fwd_modes' = fwd_modes \cup {<<"predict", training>>}
    /\ UNCHANGED <<env, pc, epoch, params, training, stopper, trainLocals,
                   result, ret_to, modes, mode, loss_all, loss, y_trues, m_dict,
                   l_dict, batch_losses, call_params, best_obs, n_obs,
                   ex_match, calls, results_file>>

\* One iteration of the batch loop of the prediction step.
MiniPredBatch ==
    /\ pc = "mini_pred_batch"
    /\ loader.rest # <<>>
    /\ LET seeds == Head(loader.rest)
       IN  /\ i' = loader.n
           /\ indices' = Append(indices, seeds)
           /\ y_predicts' =
                Append(y_predicts, [k \in 1..Len(seeds) |-> Out(params.q, seeds[k])])
    /\ loader' = Advance(loader)
    /\ fwd' = fwd \cup {"sampled"}
    /\ fwd_modes' = fwd_modes \cup {<<"predict", training>>}
    /\ UNCHANGED <<env, pc, epoch, params, training, stopper, trainLocals,
                   result, ret_to, modes, mode, loss_all, loss, y_trues, m_dict,
                   l_dict, batch_losses, call_params, best_obs, n_obs,
                   ex_match, calls, results_file>>

\* indices = cat(indices); y_predicts = cat(y_predicts);
\* train() returns the pair
MiniPredReturn ==
    /\ pc = "mini_pred_batch"
    /\ loader.rest = <<>>
    /\ Return([kind |-> "prediction", indices |-> Concat(indices),
               y_predicts |-> Concat(y_predicts)])
    /\ UNCHANGED <<env, epoch, params, training, stopper, history, results_file>>

-----------------------------------------------------------------------------
(* The test step called directly, outside train().                         *)

ModeLists ==
    {<<"valid">>, <<"valid", "test">>, <<"train", "valid">>,
     <<"train", "valid", "test">>}

\* The flow as constructed, about to be used through its test step.
\* The fields of the configuration only train() reads are left at one value.
DirectConfigs ==
    {c \in Configs : /\ c.patience = 1
                     /\ c.evaluate_interval = 1
                     /\ c.max_epoch = 1
                     /\ c.dataset = "acm4GTN"
                     /\ ~c.prediction_flag}

InitDirect ==
    /\ cfg \in DirectConfigs
    /\ landscape = "any"
    /\ \E q \in 0..(NumQ - 1) :
          /\ pc = "direct"
          /\ epoch = -1
          /\ params = [ver |-> 0, q |-> q]
          /\ training = TRUE
          /\ stopper = NewStopper(cfg.patience)
          /\ train_loss = NoRat
          /\ metric_dict = EmptyDict
          /\ losses = EmptyDict
          /\ result = NoResult
          /\ ret_to = "none"
          /\ modes = <<>>
          /\ mode = "none"
          /\ loader = NoLoader
          /\ i = -1
          /\ loss_all = NoRat
          /\ loss = Null
          /\ y_trues = <<>>
          /\ y_predicts = <<>>
          /\ indices = <<>>
          /\ m_dict = EmptyDict
          /\ l_dict = EmptyDict
          /\ batch_losses = <<>>
          /\ call_params = NoCkpt
          /\ fwd = {}
          /\ fwd_modes = {}
          /\ best_obs = NoObs
          /\ n_obs = 0
          /\ results_file = <<>>
          /\ ex_match = 0
          /\ calls = <<>>
          /\ Constructed

\* metric_dict, losses = self._mini_test_step(modes) or _full_test_step(modes);
\* the mini-batch step has a test loader only if test_flag was set.
DirectCall ==
    /\ pc = "direct"
    /\ Len(calls) < MaxCalls
    /\ \E ms \in ModeLists :
          /\ (UseMini /\ "test" \in Range(ms)) => cfg.test_flag
          /\ TestStep(ms, "direct")

\* The caller notes what the step returned.
DirectReturn ==
    /\ pc = "direct_return"
    /\ calls' = Append(calls, [metric |-> metric_dict, loss |-> losses,
                               params |-> params])
    /\ metric_dict' = EmptyDict
    /\ losses' = EmptyDict
    /\ pc' = "direct"
    /\ UNCHANGED <<env, epoch, params, training, stopper, train_loss, result,
                   ret_to, stepLocals, call_params, fwd, fwd_modes, best_obs,
                   n_obs, ex_match, results_file>>

NextDirect ==
    \/ DirectCall
    \/ MiniTestFor
    \/ MiniTestBatch
    \/ MiniTestModeEnd
    \/ MiniTestReturn
    \/ DirectReturn

SpecDirect == InitDirect /\ [][NextDirect]_vars

-----------------------------------------------------------------------------
(* HAN.__init__, followed by train() up to the end of its first training   *)
(* step.                                                                   *)

\* The fields of the configuration read after the first training step are
\* left at one value.
ConstructConfigs ==
    {c \in Configs : /\ c.patience = 1
                     /\ c.evaluate_interval = 1
                     /\ c.max_epoch = 1
                     /\ c.dataset = "acm4GTN"}

\* A split whose flag is set although the task has no index set for it.
MissingSplit ==
    \/ cfg.prediction_flag /\ ~task.has_pred_idx
    \/ cfg.test_flag /\ ~task.has_test_idx

\* CorrectedOutDim correcting a missing attribute only.
CorrectedOutDim_OnlyIfMissing ==
    IF ~task.has_out_dim THEN task.num_classes ELSE out_dim

\* if not hasattr(self.task.dataset, 'out_dim') or args.out_dim != self.num_classes:
\*     self.args.out_dim = self.num_classes
CorrectedOutDim ==
    IF ~task.has_out_dim \/ out_dim # task.num_classes
    THEN task.num_classes
    ELSE out_dim

\* What raises in __init__: self.task.dataset.pred_idx when prediction_flag is
\* set, and self.test_idx.to('cpu') of the test loader, which is created in
\* mini-batch mode with test_flag only.  In full-batch mode test_idx is
\* stored as get_split() returned it and not looked at.
ConstructionRaises ==
    \/ cfg.prediction_flag /\ ~task.has_pred_idx
    \/ cfg.mini_batch_flag /\ cfg.test_flag /\ ~task.has_test_idx

\* HAN.__init__: the out_dim correction, then the model, then the splits and
\* the loaders.
Construct ==
    /\ pc = "init"
    /\ out_dim' = CorrectedOutDim
    /\ model_out_dim' = out_dim'
    /\ pc' = IF ConstructionRaises THEN "raised" ELSE "for"
    /\ UNCHANGED <<cfg, landscape, task, given_out_dim, epoch, params,
                   training, stopper, trainLocals, result, ret_to, stepLocals,
                   call_params, history, results_file>>

InitConstruct ==
    /\ cfg \in ConstructConfigs
    /\ landscape = "any"
    /\ task \in Tasks
    /\ given_out_dim \in 1..MaxClasses
    /\ out_dim = given_out_dim
    /\ model_out_dim = 0
    /\ pc = "init"
    /\ epoch = -1
    /\ params = [ver |-> 0, q |-> 0]
    /\ training = TRUE
    /\ stopper = NewStopper(cfg.patience)
    /\ train_loss = NoRat
    /\ metric_dict = EmptyDict
    /\ losses = EmptyDict
    /\ result = NoResult
    /\ ret_to = "none"
    /\ modes = <<>>
    /\ mode = "none"
    /\ loader = NoLoader
    /\ i = -1
    /\ loss_all = NoRat
    /\ loss = Null
    /\ y_trues = <<>>
    /\ y_predicts = <<>>
    /\ indices = <<>>
    /\ m_dict = EmptyDict
    /\ l_dict = EmptyDict
    /\ batch_losses = <<>>
    /\ call_params = NoCkpt
    /\ fwd = {}
    /\ fwd_modes = {}
    /\ best_obs = NoObs
    /\ n_obs = 0
    /\ results_file = <<>>
    /\ ex_match = 0
    /\ calls = <<>>

NextConstruct ==
    \/ Construct
    \/ ForEpoch
    \/ FullTrainStep
    \/ MiniTrainCall
    \/ MiniTrainBatch
    \/ MiniTrainReturn

SpecConstruct == InitConstruct /\ [][NextConstruct]_vars

-----------------------------------------------------------------------------
(* The specification.                                                      *)

Next ==
    \/ ForEpoch
    \/ FullTrainStep
    \/ MiniTrainCall
    \/ MiniTrainBatch
    \/ MiniTrainReturn
    \/ EvalSkip
    \/ EvalEpoch
    \/ MiniTestFor
    \/ MiniTestBatch
    \/ MiniTestModeEnd
    \/ MiniTestReturn
    \/ ConsultStopper
    \/ RestoreBest
    \/ FullPrediction
    \/ MiniPredCall
    \/ MiniPredBatch
    \/ MiniPredReturn
    \/ FinalNoTest
    \/ FinalHGBnEval
    \/ HGBnExport
    \/ FinalTestEval
    \/ FinalReturn

Spec == Init /\ [][Next]_vars

-----------------------------------------------------------------------------
(* Properties.                                                             *)

\* The control is inside the epoch loop of train().
InLoop ==
    \/ pc \in {"for", "train_step", "mini_train_batch", "eval_check", "stopper"}
    \/ ret_to = "epoch"

\* The loop of train() has been left and the checkpoint has been loaded.
AfterRestore ==
    \/ pc \in {"predict", "mini_pred_batch", "final", "hgbn_export",
               "final_return", "done"}
    \/ ret_to \in {"hgbn", "final"}

\* Every split fits in one batch.
SingleBatch ==
    \A idx \in {train_idx, valid_idx, test_idx} : Len(idx) <= cfg.batch_size

C1_Watching ==
    /\ (n_obs = 0) => (stopper = NewStopper(cfg.patience))
    /\ InLoop => (stopper.counter < stopper.patience /\ ~stopper.early_stop)

C1_Step ==
    IF n_obs' = n_obs + 1
    THEN LET v == losses["valid"] IN
         /\ IF v < stopper.best_loss
            THEN /\ stopper'.best_loss = v
                 /\ stopper'.counter = 0
                 /\ stopper'.ckpt = params
            ELSE /\ stopper'.best_loss = stopper.best_loss
                 /\ stopper'.counter = stopper.counter + 1
                 /\ stopper'.ckpt = stopper.ckpt
         /\ (pc' = "load") <=> (stopper'.counter >= stopper'.patience)
         /\ (pc' # "load") => (pc' = "for")
    ELSE stopper' = stopper

C1_Example ==
    /\ (ex_match \in 1..(Len(Example) - 1) /\ stopper.patience = 3)
          => ~stopper.early_stop
    /\ (ex_match = Len(Example) /\ stopper.patience = 3)
          => /\ stopper.early_stop
             /\ ~InLoop
             /\ n_obs = Len(Example)
             /\ epoch = (Len(Example) - 1) * cfg.evaluate_interval
             /\ stopper.best_loss = Example[2]
             /\ best_obs.loss = Example[2]
             /\ stopper.ckpt = best_obs.params

\* C1: the stopper starts at best_loss = +infinity and counter = 0; an
\* observation below best_loss becomes best_loss, resets the counter and
\* overwrites the checkpoint with the current parameters, any other observation
\* increments the counter; the loop is left at the first observation with
\* counter >= patience and at no other; and on the observations 5.0, 4.0, 4.2,
\* 4.3, 4.1 with patience 3 the loop is left right after 4.1, holding the
\* checkpoint saved at 4.0.
C1_EarlyStopping == [](C1_Watching /\ C1_Example) /\ [][C1_Step]_vars

C1_Witness == ex_match = Len(Example) /\ pc = "done"

\* C2: once the loop of train() is left, the parameters of the model are those
\* of the observation with the lowest validation loss, and every final output
\* (exported file, predictions, summary metrics) is computed with them.
C2_BestRestored ==
    AfterRestore =>
        /\ best_obs.loss < INF
        /\ params = best_obs.params
        /\ (results_file # <<>>) =>
              results_file = [k \in 1..num_nodes |-> Out(best_obs.params.q, k - 1)]
        /\ (result.kind = "prediction") =>
              \A k \in DOMAIN result.y_predicts :
                  result.y_predicts[k] = Out(best_obs.params.q, result.indices[k])
        /\ (result.kind = "summary") =>
              \A m \in DOMAIN result.metric :
                  result.metric[m] = Evaluate(best_obs.params.q, m)

C2_Witness ==
    /\ pc = "done"
    /\ result.kind = "summary"
    /\ stopper.counter > 0
    /\ results_file # <<>>

\* C3: the loss the mini-batch test step stores for a split is the unweighted
\* mean of the per-batch losses of the traversal of that split.
C3_MiniTestLossIsMean ==
    (pc = "mini_test_for" /\ mode # "none") =>
        l_dict[mode] * Len(batch_losses) = SumSeq(batch_losses)

\* C4: the mini-batch train step returns (l1 + ... + ln) / n for the per-batch
\* losses l1..ln of its traversal, whatever the sizes of the batches.
C4_MiniTrainMean ==
    [][(pc = "mini_train_batch" /\ pc' = "eval_check") =>
          /\ Len(batch_losses) >= 1
          /\ train_loss' = Rat(SumSeq(batch_losses), Len(batch_losses))]_vars

C4_Witness ==
    /\ pc = "mini_train_batch"
    /\ loader.rest = <<>>
    /\ cfg.batch_size = 2
    /\ Len(batch_losses) = 2
    /\ batch_losses[1] # batch_losses[2]

\* C5: two calls of the test step with the same set of splits and no training
\* step in between return the same loss and score mappings and leave the
\* parameters as they were.
C5_EvalIdempotent ==
    \A a, b \in DOMAIN calls :
        (DOMAIN calls[a].metric = DOMAIN calls[b].metric) =>
            /\ calls[a].metric = calls[b].metric
            /\ calls[a].loss = calls[b].loss
            /\ calls[a].params = calls[b].params

\* C6: the identifiers and predictions train() returns have the same length,
\* the prediction at a position is the output for the identifier at that
\* position, and every node of the prediction index set occurs exactly once
\* among the identifiers.
C6_PredictionAligned ==
    (pc = "done" /\ result.kind = "prediction") =>
        /\ Len(result.indices) = Len(result.y_predicts)
        /\ \A k \in DOMAIN result.indices :
              /\ k \in DOMAIN result.y_predicts
              /\ result.y_predicts[k] = Out(params.q, result.indices[k])
        /\ \A n \in Range(pred_idx) :
              Cardinality({k \in DOMAIN result.indices : result.indices[k] = n}) = 1

C6_Witness ==
    /\ pc = "done"
    /\ result.kind = "prediction"
    /\ cfg.mini_batch_flag
    /\ cfg.batch_size = 1

\* C7: when every split fits in one batch, the mini-batch train step returns
\* the loss the full-batch train step returns from the same parameters, and the
\* mini-batch test step stores for every split the loss and the score the
\* full-batch test step returns.
C7_SingleBatchEquivalence ==
    SingleBatch =>
        /\ (pc = "mini_train_batch" /\ loader.rest = <<>>) =>
              MiniTrainResult = FullTrainLoss(call_params.q)
        /\ (pc = "mini_test_for" /\ mode # "none") =>
              /\ l_dict[mode] = FullLosses(call_params.q, <<mode>>)[mode]
              /\ m_dict[mode] = FullMetrics(call_params.q, <<mode>>)[mode]

C7_Witness ==
    /\ SingleBatch
    /\ pc = "mini_test_for"
    /\ mode = "test"
    /\ ret_to = "epoch"
    /\ epoch > 0

\* C8 as claimed: with test_flag set and prediction_flag not set, the summary
\* train() returns holds the metric of the test split, whatever the dataset.
C8_SummaryHasTestMetric ==
    (pc = "done" /\ cfg.test_flag /\ ~cfg.prediction_flag) =>
        /\ result.kind = "summary"
        /\ "test" \in DOMAIN result.metric

\* C8, amended: with test_flag set and prediction_flag not set, train() returns
\* a summary; for a dataset whose name does not start with 'HGBn' it holds the
\* metric of the test split; for an 'HGBn' dataset it holds the metric of the
\* valid split only and the outputs are written to the results file.
C8_SummaryHasTestMetricUnlessHGBn ==
    (pc = "done" /\ cfg.test_flag /\ ~cfg.prediction_flag) =>
        /\ result.kind = "summary"
        /\ result.epoch = epoch
        /\ IF Prefix4(cfg.dataset) = "HGBn"
           THEN /\ DOMAIN result.metric = {"valid"}
                /\ results_file # <<>>
           ELSE /\ DOMAIN result.metric = {"valid", "test"}
                /\ result.metric["test"] = Evaluate(params.q, "test")
                /\ results_file = <<>>

C8_Witness ==
    /\ pc = "done"
    /\ cfg.test_flag
    /\ ~cfg.prediction_flag
    /\ Prefix4(cfg.dataset) # "HGBn"
    /\ result.kind = "summary"
    /\ "test" \in DOMAIN result.metric

\* C9: train() returns the pair of identifiers and predictions or the summary
\* of metrics and epoch, whatever the flags.
C9_ReturnsPairOrSummary ==
    (pc = "done") => (result.kind \in {"prediction", "summary"})

\* C10: every forward pass of a run is of the kind mini_batch_flag selects:
\* over sampled batches with the flag set, over the whole graph without it.
C10_OneExecutionMode ==
    fwd \subseteq (IF cfg.mini_batch_flag THEN {"sampled"} ELSE {"whole"})


-----------------------------------------------------------------------------
(* Construction.                                                           *)

\* C11: when a split is missing whose flag is set (prediction_flag without a
\* prediction index set, test_flag without a test index set), the run fails
\* at construction, in both execution modes: it never gets past __init__, so
\* no forward pass and no parameter update is ever executed.
C11_MissingSplitFailsAtConstruction ==
    MissingSplit => /\ pc \in {"init", "raised"}
                    /\ fwd = {}
                    /\ params.ver = 0

\* C12: once construction has run, args.out_dim equals the number of classes
\* of the dataset and the model was built with that corrected value, whatever
\* out_dim was configured; construction raises for a missing split only,
\* never for the mismatch.
C12_OutDimCorrected ==
    pc # "init" => /\ out_dim = task.num_classes
                   /\ model_out_dim = task.num_classes
                   /\ pc = "raised" => ConstructionRaises

\* A flow constructed from a configured out_dim that disagreed with the
\* dataset, whose dataset does have the attribute.
C12_Witness ==
    /\ pc = "for"
    /\ task.has_out_dim
    /\ given_out_dim # task.num_classes
    /\ model_out_dim = task.num_classes


-----------------------------------------------------------------------------
(* The mini-batch test step, split by split.                               *)

\* The mini-batch test step has just finished the traversal of `mode`.
SplitDone == pc = "mini_test_for" /\ mode # "none"

\* The seed nodes of the outputs accumulated for the split, in the order they
\* were accumulated.
SeenNodes(outs) == [k \in 1..Len(outs) |-> NodeOf(outs[k])]

\* The batches of the split just traversed, as its loader yielded them.
SeenBatches == Chunk(SeenNodes(y_predicts), cfg.batch_size)

\* C13: the loss the mini-batch test step stores for a split is a function of
\* the parameters and of the batches of that split alone (here: the loss of
\* the last of them), whatever splits were traversed before it in the same
\* call and whatever the accumulator loss_all holds from them.
C13_SplitLossIsolated ==
    SplitDone =>
        l_dict[mode] = LossFn(call_params.q, SeenBatches[Len(SeenBatches)])

\* The valid split done after the train split, in batches of one node, the
\* accumulator holding more than the valid split's own batch losses.
C13_Witness ==
    /\ SplitDone
    /\ mode = "valid"
    /\ "train" \in DOMAIN l_dict
    /\ cfg.batch_size = 1
    /\ loss_all # Rat(SumSeq(batch_losses), Len(batch_losses))

\* C14: during the traversal of a split the accumulators hold one entry per
\* batch yielded so far (none at its start), in yield order, of the labels and
\* outputs of that split's seeds, and the evaluator has not been invoked for
\* the split; when the traversal is over the evaluator has been invoked on the
\* concatenation, which has exactly one entry per seed node of the split, and
\* it has not been invoked for the splits still to come.
C14_EvaluatorOncePerSplit ==
    /\ pc = "mini_test_batch" =>
          /\ Len(y_predicts) = loader.n
          /\ Len(y_trues) = loader.n
          /\ mode \notin DOMAIN m_dict
          /\ LET seen == SeenNodes(Concat(y_predicts))
                 all == seen \o Concat(loader.rest)
             IN  /\ Len(all) = Len(Mask(mode))
                 /\ Range(all) = Range(Mask(mode))
                 /\ Concat(y_trues) = [k \in 1..Len(seen) |-> Labels(seen[k])]
                 /\ Concat(y_predicts) =
                       [k \in 1..Len(seen) |-> Out(call_params.q, seen[k])]
    /\ SplitDone =>
          /\ Len(y_predicts) = Len(Mask(mode))
          /\ Range(SeenNodes(y_predicts)) = Range(Mask(mode))
          /\ y_trues = [k \in 1..Len(y_predicts) |-> Labels(NodeOf(y_predicts[k]))]
          /\ mode \in DOMAIN m_dict
          /\ m_dict[mode] =
                F1(y_trues, [k \in 1..Len(y_predicts) |-> Argmax(y_predicts[k])])
          /\ DOMAIN m_dict \cap Range(modes) = {}

\* The test split done last of three, in batches of one node.
C14_Witness ==
    /\ SplitDone
    /\ mode = "test"
    /\ cfg.batch_size = 1
    /\ DOMAIN m_dict = {"train", "valid", "test"}


-----------------------------------------------------------------------------
(* The epoch loop and the early stopper.                                   *)

\* The loop of train() has been left.
AfterLoop == pc = "load" \/ AfterRestore

\* The number of evaluation epochs (epoch % evaluate_interval = 0) among the
\* epochs 0 .. e - 1.
EvalEpochsBefore(e) ==
    IF e <= 0 THEN 0 ELSE ((e - 1) \div cfg.evaluate_interval) + 1

\* C15 as claimed: the stopper is consulted exactly once in every epoch, at
\* its end: whenever the loop is at an epoch boundary, or has been left, the
\* stopper has been consulted as many times as epochs were executed.
C15_ConsultedEveryEpoch ==
    (pc = "for" \/ AfterLoop) => n_obs = epoch + 1

\* C15, amended: the stopper is consulted exactly once in every evaluation
\* epoch and not in the other epochs.  While an epoch is being trained and
\* evaluated the stopper has been consulted for the evaluation epochs before
\* it only (never in the middle of the epoch's steps); at the epoch boundary
\* and after the loop it has been consulted for the evaluation epochs up to
\* and including the last epoch executed; and the loop is left before
\* max_epoch epochs only if the stopper said stop.
C15_ConsultedEveryEvaluationEpoch ==
    /\ (InLoop /\ pc # "for") => n_obs = EvalEpochsBefore(epoch)
    /\ (pc = "for" \/ AfterLoop) => n_obs = EvalEpochsBefore(epoch + 1)
    /\ (AfterLoop /\ epoch + 1 < cfg.max_epoch) => stopper.early_stop

\* The boundary after an epoch that was not an evaluation epoch.
C15_Witness ==
    /\ pc = "for"
    /\ epoch = 1
    /\ cfg.evaluate_interval = 2
    /\ n_obs = 1

-----------------------------------------------------------------------------
(* The mode of the model.                                                  *)

\* C16: every forward pass of a training step (the one an optimizer step
\* follows) ran with the model in training mode, every forward pass of a test
\* step, of a prediction step and of the results export ran with the model in
\* evaluation mode, and the model is in the right mode whenever a batch loop
\* is about to run a forward pass.
C16_ModeMatchesStep ==
    /\ \A f \in fwd_modes : f[2] = (f[1] = "train")
    /\ pc = "mini_train_batch" => training
    /\ pc \in {"mini_test_batch", "mini_pred_batch"} => ~training

\* The training step of the epoch after an evaluation epoch has run.
C16_Witness ==
    /\ pc = "eval_check"
    /\ epoch = 1
    /\ <<"test", FALSE>> \in fwd_modes
    /\ <<"train", TRUE>> \in fwd_modes


-----------------------------------------------------------------------------
(* Who changes the parameters.                                             *)

\* The number of optimizer steps of one training step.
UpdatesPerEpoch ==
    IF cfg.mini_batch_flag
    THEN NumBatches(Len(train_idx), cfg.batch_size)
    ELSE 1

\* C17 as claimed: a step of the run changes the parameters only if it is
\* (part of) a training step.
C17_OnlyTrainingStepsChange ==
    [][params' # params => pc \in {"train_step", "mini_train_batch"}]_vars

\* Inside the loop the parameters have had UpdatesPerEpoch updates per epoch
\* trained, plus one per batch yielded so far in the traversal of the train
\* loader; a running test or prediction step has the parameters it was
\* called with.
C17_Count ==
    /\ pc = "train_step" => params.ver = epoch * UpdatesPerEpoch
    /\ pc = "mini_train_batch" =>
          params.ver = epoch * UpdatesPerEpoch + loader.n
    /\ (pc \in {"for", "eval_check", "stopper"} \/ ret_to = "epoch") =>
          params.ver = (epoch + 1) * UpdatesPerEpoch
    /\ pc \in {"mini_test_for", "mini_test_batch", "mini_pred_batch"} =>
          params = call_params

\* A step that changes the parameters is one gradient update of a training
\* step, made in training mode, or the load of the checkpoint after the loop.
C17_Step ==
    params' # params =>
        \/ /\ pc \in {"train_step", "mini_train_batch"}
           /\ params'.ver = params.ver + 1
           /\ training'
        \/ /\ pc = "load"
           /\ params' = stopper.ckpt

\* C17, amended: the parameters are changed only by training steps and by
\* the load of the best checkpoint after the loop: a full-batch training step
\* makes exactly one update per epoch, a mini-batch training step exactly one
\* per train batch, each made before the next batch is taken, and test and
\* prediction steps leave the parameters as they were.
C17_OnlyTrainingAndRestoreChange == [](C17_Count) /\ [][C17_Step]_vars

\* The second epoch of a mini-batch run, two of its three batches done.
C17_Witness ==
    /\ pc = "mini_train_batch"
    /\ cfg.batch_size = 1
    /\ epoch = 1
    /\ loader.n = 2
    /\ params.ver = 5


-----------------------------------------------------------------------------
(* Termination of train().                                                 *)

\* The largest number of batches a loader yields in one traversal.
MostBatches == Len(train_idx)

\* An upper bound on the steps a batch loop has still to make.
BatchRank == Len(loader.rest) + 1

\* An upper bound on the steps a running mini-batch test step has still to
\* make: per mode to come its start, its batches and its end.
TestRank ==
    (MostBatches + 2) * Len(modes) + 1
      + (IF pc = "mini_test_batch" THEN BatchRank ELSE 0)

\* An upper bound on the steps one test step makes.
TestMost == (MostBatches + 2) * Len(EpochModes) + 2

\* An upper bound on the steps train() has still to make after the loop.
TailRank ==
    CASE pc = "done" -> 0
      [] pc \in {"hgbn_export", "final_return"} -> 1
      [] pc \in {"mini_test_for", "mini_test_batch"} -> 1 + TestRank
      [] pc = "mini_pred_batch" -> 1 + BatchRank
      [] pc \in {"predict", "final"} -> TestMost + 2
      [] pc = "load" -> TestMost + 3

\* An upper bound on the steps the current iteration of the loop has still to
\* make before the next `for`.
EpochRank ==
    CASE pc = "for" -> 0
      [] pc = "stopper" -> 1
      [] pc \in {"mini_test_for", "mini_test_batch"} -> 1 + TestRank
      [] pc = "eval_check" -> TestMost + 2
      [] pc = "mini_train_batch" -> TestMost + 2 + BatchRank
      [] pc = "train_step" -> TestMost + MostBatches + 4

\* An upper bound on the steps one iteration makes, its `for` included.
EpochMost == TestMost + MostBatches + 5

\* A variant of train(): an upper bound on the steps it has still to make.
Rank ==
    IF InLoop
    THEN TestMost + 4 + EpochMost * (cfg.max_epoch - epoch - 1) + EpochRank
    ELSE TailRank

\* The guards of the steps of train(), position by position: at every
\* position but the return some step can be taken.
CanStep ==
    \/ pc \in {"for", "load", "hgbn_export", "final_return"}
    \/ pc \in {"train_step", "eval_check", "predict", "final"}
    \/ pc = "stopper" /\ "valid" \in DOMAIN losses
    \/ pc \in {"mini_train_batch", "mini_test_batch", "mini_pred_batch"}
    \/ pc = "mini_test_for" /\ (modes # <<>> \/ ret_to \in {"epoch", "hgbn", "final"})

\* CanStep is not more than the steps allow.
CanStepIsEnabled == CanStep => ENABLED Next

C18_Bounded ==
    /\ pc = "done" \/ CanStep
    /\ epoch < cfg.max_epoch
    /\ stopper.early_stop => AfterLoop

C18_Step ==
    /\ Rank' < Rank
    /\ Rank' >= 0
    /\ stopper.early_stop =>
          /\ n_obs' = n_obs
          /\ params' # params => pc = "load"

\* C18: train() terminates.  Before it has returned some step can be taken, and
\* every step lowers a bound on the number of steps still to come that is
\* never negative; the loop variable stays below max_epoch, so at most
\* max_epoch training steps are started; and once the stopper has said stop
\* the control is outside the loop, the stopper is not consulted again and
\* the parameters are touched by the checkpoint load only.
C18_Terminates == [](C18_Bounded) /\ [][C18_Step]_vars

\* A run that has returned after the stopper ended the loop before max_epoch
\* epochs.
C18_Witness ==
    /\ pc = "done"
    /\ stopper.early_stop
    /\ epoch + 1 < cfg.max_epoch


-----------------------------------------------------------------------------
(* What train() returns.                                                   *)

\* train() has returned a summary.
ReturnedSummary == pc = "done" /\ result.kind = "summary"

\* C19: the epoch of the summary is the last epoch the loop executed: the
\* epoch of the stopper's last observation if the stopper ended the loop,
\* max_epoch - 1 otherwise; the metrics of the same summary are those of the
\* checkpoint the stopper holds, whenever that was saved.
C19_EpochIsLastExecuted ==
    ReturnedSummary =>
        /\ result.epoch = epoch
        /\ result.epoch = IF stopper.early_stop
                          THEN (n_obs - 1) * cfg.evaluate_interval
                          ELSE cfg.max_epoch - 1
        /\ \A m \in DOMAIN result.metric :
              result.metric[m] = Evaluate(stopper.ckpt.q, m)

\* A summary after an early stop, whose checkpoint was saved in an earlier
\* epoch than the one it reports.
C19_Witness ==
    /\ ReturnedSummary
    /\ stopper.early_stop
    /\ params = stopper.ckpt
    /\ stopper.ckpt.ver < (result.epoch + 1) * UpdatesPerEpoch

\* C20: with prediction_flag set the control never enters the test_flag block
\* of train(): no final test step is called, no export forward pass is run,
\* the results file is not written, and what train() returns is the
\* prediction pair, whatever test_flag and the dataset are.
C20_PredictionReplacesTest ==
    cfg.prediction_flag =>
        /\ pc \notin {"final", "hgbn_export", "final_return"}
        /\ ret_to \notin {"hgbn", "final"}
        /\ results_file = <<>>
        /\ \A f \in fwd_modes : f[1] # "export"
        /\ pc = "done" => result.kind = "prediction"

\* A run with both flags set, on an HGBn dataset, that has returned.
C20_Witness ==
    /\ pc = "done"
    /\ cfg.prediction_flag
    /\ cfg.test_flag
    /\ Prefix4(cfg.dataset) = "HGBn"
    /\ result.kind = "prediction"

====
